---- MODULE Spec2Model ----
(***************************************************************************)
(* State-machine model of WhatSPY (src/whatS.py): phone-number validation  *)
(* and normalisation, the single-GET query with its exception              *)
(* classification, result persistence, and the console menu loop.          *)
(*                                                                         *)
(* A string is a sequence of characters; a character is a one-token        *)
(* string.  "TAB" and "NL" stand for U+0009 and U+000A, "ARABIC3" for      *)
(* U+0663 (ARABIC-INDIC DIGIT THREE), a character for which Python's       *)
(* str.isdigit() is true although it is not an ASCII digit.                *)
(*                                                                         *)
(* console is what print() has written to standard output, one tag per     *)
(* message; log is the sequence of records handed to the logger; files is  *)
(* the set of result files in the working directory.                       *)
(***************************************************************************)
EXTENDS Integers, Sequences, FiniteSets, TLC

VARIABLES pc, api_key, api_host, iter, entry, choice, phone, save_to_file,
          net, gets, outcomes, outcome, returned, files, log, console,
          exitKind, url, detail, write, valid, formatted, twice

vars == <<pc, api_key, api_host, iter, entry, choice, phone, save_to_file,
          net, gets, outcomes, outcome, returned, files, log, console,
          exitKind, url, detail, write, valid, formatted, twice>>

(***************************************************************************)
(* Program constants                                                       *)
(***************************************************************************)
MIN_PHONE_LENGTH == 10

MAX_PHONE_LENGTH == 15

(***************************************************************************)
(* Bounds of the model                                                     *)
(***************************************************************************)
\* longest run of ASCII digits in a generated phone string
MaxRun == 16

\* longest arbitrary prefix and suffix around the digit run
MaxAffix == 1

\* number of menu prompts in one run of the program
MaxIter == 2

(***************************************************************************)
(* Characters                                                              *)
(***************************************************************************)
AsciiDigits == {"0", "1", "2", "3", "4", "5", "6", "7", "8", "9"}

\* characters the generated inputs are built from
Alphabet == {"5", "ARABIC3", " ", "TAB", "-", "(", ")", "+", "a"}

\* the regular-expression class \s on a str pattern: Unicode whitespace
IsWhitespace(c) == c \in {" ", "TAB", "NL"}

\* str.isdigit() on one character: any Unicode digit
IsDigitChar(c) == c \in AsciiDigits \cup {"ARABIC3"}

\* the character class [\s\-\(\)\+]
StripClass(c) == IsWhitespace(c) \/ c \in {"-", "(", ")", "+"}

\* re.sub(r'[\s\-\(\)\+]', '', s): every match is removed
ReSubAll(s) == SelectSeq(s, LAMBDA c : ~StripClass(c))

\* str.isdigit(): non-empty and every character a digit
IsDigit(s) == Len(s) > 0 /\ \A i \in 1..Len(s) : IsDigitChar(s[i])

\* format_phone_number with re.sub(..., count=1): only the first match is removed
format_first_match_only(s) ==
  IF \E i \in 1..Len(s) : StripClass(s[i])
  THEN LET k == CHOOSE i \in 1..Len(s) :
                  StripClass(s[i]) /\ \A j \in 1..(i-1) : ~StripClass(s[j])
       IN SubSeq(s, 1, k-1) \o SubSeq(s, k+1, Len(s))
  ELSE s

\* format_phone_number with the class [\s\-\(\)], which lacks \+
format_without_plus(s) == SelectSeq(s, LAMBDA c : ~(StripClass(c) /\ c # "+"))

format_phone_number(s) == ReSubAll(s)

\* validate_phone_number without the test of the length
validate_without_length(s) ==
  IF Len(s) = 0 THEN FALSE
  ELSE LET cleaned_number == ReSubAll(s)
       IN IF ~IsDigit(cleaned_number) THEN FALSE ELSE TRUE

validate_phone_number(s) ==
  IF Len(s) = 0 THEN FALSE
  ELSE LET cleaned_number == ReSubAll(s)
       IN IF ~IsDigit(cleaned_number) THEN FALSE
          ELSE IF Len(cleaned_number) < MIN_PHONE_LENGTH
                  \/ Len(cleaned_number) > MAX_PHONE_LENGTH THEN FALSE
          ELSE TRUE

(***************************************************************************)
(* Input strings                                                           *)
(***************************************************************************)
RECURSIVE Rep(_, _)
Rep(c, n) == IF n = 0 THEN <<>> ELSE <<c>> \o Rep(c, n - 1)

Affixes == UNION {[1..n -> Alphabet] : n \in 0..MaxAffix}

\* no character, or one
OptChar == {<<>>} \cup {<<c>> : c \in Alphabet}

\* the strings of the documentation and of the help text
Examples ==
  { <<"+","5","2"," ","5","5"," ","1","2","3","4"," ","5","6","7","8">>,
    <<"1","2","3">>,
    <<"1","2","3","4","5","6","7","8","9","0","1","2","3","4","5","6","7">>,
    <<"(","5","5","5",")"," ","1","2","3","-","4","5","6","7">>,
    <<"+","1"," ","5","5","5"," ","1","2","3"," ","4","5","6","7">> }

PhoneInputs ==
  {a \o Rep("5", n \div 2) \o m \o Rep("5", n - (n \div 2)) \o b :
      a \in Affixes, n \in 0..MaxRun, m \in OptChar, b \in OptChar}
  \cup Examples

\* the phone strings typed at the menu
MenuPhones ==
  { <<"+","5","2"," ","5","5"," ","1","2","3","4"," ","5","6","7","8">>,
    <<"TAB">> \o Rep("5", MIN_PHONE_LENGTH),
    Rep("ARABIC3", MIN_PHONE_LENGTH),
    <<"1","2","3">>,
    <<"a">> \o Rep("5", MIN_PHONE_LENGTH),
    <<>> }

(***************************************************************************)
(* The HTTP exchange                                                       *)
(***************************************************************************)
NoResponse == [kind |-> "none", status |-> 0, body |-> "none"]

NoDetail == [status |-> 0, kind |-> "none", chars |-> 0]

\* one status of each class 1xx .. 5xx
Statuses == {101, 200, 304, 404, 500}

\* "json": a JSON document; "deep_json": a JSON document that parses but
\* whose nesting exhausts the interpreter stack when print_colored_json
\* recurses over it; "text_short", "text_long": 150 and 250 characters that
\* are not JSON; "empty": no body
Bodies == {"json", "deep_json", "text_short", "text_long", "empty"}

\* what requests.get can do: raise, or return a response
NetOutcomes ==
  {[kind |-> k, status |-> 0, body |-> "none"] :
      k \in {"ReadTimeout", "ConnectTimeout", "ConnectionError",
             "TooManyRedirects"}}
  \cup {[kind |-> "response", status |-> s, body |-> b] :
          s \in Statuses, b \in Bodies}

\* the classes an exception is an instance of
Bases(exc) ==
  CASE exc = "ReadTimeout" ->
         {"ReadTimeout", "Timeout", "RequestException", "Exception"}
    [] exc = "ConnectTimeout" ->
         {"ConnectTimeout", "ConnectionError", "Timeout",
          "RequestException", "Exception"}
    [] exc = "ConnectionError" ->
         {"ConnectionError", "RequestException", "Exception"}
    [] exc = "TooManyRedirects" ->
         {"TooManyRedirects", "RequestException", "Exception"}
    [] exc = "HTTPError" -> {"HTTPError", "RequestException", "Exception"}
    [] exc = "JSONDecodeError" ->
         {"JSONDecodeError", "InvalidJSONError", "RequestException",
          "ValueError", "Exception"}
    [] exc = "RecursionError" ->
         {"RecursionError", "RuntimeError", "Exception"}
    [] exc = "OSError" -> {"OSError", "Exception"}

\* the except clauses of query_whatsapp_number, in source order
Handlers ==
  <<"HTTPError", "Timeout", "ConnectionError", "JSONDecodeError", "Exception">>

\* the first except clause that matches the exception
Catch(exc) ==
  LET i == CHOOSE i \in 1..Len(Handlers) :
             /\ Handlers[i] \in Bases(exc)
             /\ \A j \in 1..(i-1) : Handlers[j] \notin Bases(exc)
  IN Handlers[i]

\* the outcome each except clause stands for
OutcomeOf(h) ==
  CASE h = "HTTPError" -> "HttpError"
    [] h = "Timeout" -> "Timeout"
    [] h = "ConnectionError" -> "ConnectionError"
    [] h = "JSONDecodeError" -> "InvalidResponseBody"
    [] h = "Exception" -> "UnknownError"

\* Response.raise_for_status() raises HTTPError for 400 <= status < 600
RaisesForStatus(status) == status >= 400 /\ status < 600

\* truth value of a response that is not None
TruthyIfNotNone(r) == r.kind = "response"

\* "if response:" -- Response.__bool__ is Response.ok, which is true
\* exactly when raise_for_status() would not raise
ResponseTruthy(r) == r.kind = "response" /\ ~RaisesForStatus(r.status)

\* Response.json() succeeds
ParsesAsJson(body) == body \in {"json", "deep_json"}

\* print_colored_json raises RecursionError
PrintRaises(body) == body = "deep_json"

\* len(response.text)
TextLen(body) ==
  CASE body = "text_short" -> 150
    [] body = "text_long" -> 250
    [] body = "empty" -> 0
    [] OTHER -> 40

Min(a, b) == IF a < b THEN a ELSE b

Info(m) == [level |-> "INFO", msg |-> m]

Error(m) == [level |-> "ERROR", msg |-> m]

Critical(m) == [level |-> "CRITICAL", msg |-> m]

\* what open(filename, 'w') and json.dump can do
SaveOutcomes == {"ok", "open_fails", "dump_fails"}

\* save_result_to_file without its try/except: a failure of open or of
\* json.dump leaves the function
save_result_to_file_uncaught(fs, number, ts, w) ==
  LET name == <<number, ts>>
      others == {f \in fs : f.name # name}
  IN CASE w = "ok" ->
            [files |-> others \cup {[name |-> name, complete |-> TRUE]},
             console |-> <<"saved">>, log |-> <<Info("saved")>>,
             write |-> w, raised |-> FALSE]
       [] w = "dump_fails" ->
            [files |-> others \cup {[name |-> name, complete |-> FALSE]},
             console |-> <<>>, log |-> <<>>, write |-> w, raised |-> TRUE]
       [] w = "open_fails" ->
            [files |-> fs, console |-> <<>>, log |-> <<>>,
             write |-> w, raised |-> TRUE]

\* save_result_to_file: the file named by number and timestamp is created
\* (replacing a file of that name) unless open fails; every failure is
\* caught and reported
save_result_to_file(fs, number, ts, w) ==
  LET name == <<number, ts>>
      others == {f \in fs : f.name # name}
  IN CASE w = "ok" ->
            [files |-> others \cup {[name |-> name, complete |-> TRUE]},
             console |-> <<"saved">>, log |-> <<Info("saved")>>,
             write |-> w, raised |-> FALSE]
       [] w = "dump_fails" ->
            [files |-> others \cup {[name |-> name, complete |-> FALSE]},
             console |-> <<"save_error">>, log |-> <<Error("save_error")>>,
             write |-> w, raised |-> FALSE]
       [] w = "open_fails" ->
            [files |-> fs,
             console |-> <<"save_error">>, log |-> <<Error("save_error")>>,
             write |-> w, raised |-> FALSE]

\* lines 261-262 with the test of save_to_file left out
SaveStepAlways(save, fs, number, ts, w) ==
  save_result_to_file(fs, number, ts, w)

\* "if save_to_file: self.save_result_to_file(data, formatted_number)"
SaveStep(save, fs, number, ts, w) ==
  IF save THEN save_result_to_file(fs, number, ts, w)
  ELSE [files |-> fs, console |-> <<>>, log |-> <<>>,
        write |-> "none", raised |-> FALSE]

\* _handle_http_error: report the status; show the body when the response
\* is truthy.  raised: an exception leaves the function.
handle_http_error(status, r) ==
  LET head == [console |-> <<"http_error">>, log |-> <<Error("http_error")>>]
  IN IF ~ResponseTruthy(r)
     THEN [console |-> head.console, log |-> head.log, raised |-> FALSE,
           detail |-> [status |-> status, kind |-> "none", chars |-> 0]]
     ELSE IF ParsesAsJson(r.body)
     THEN IF PrintRaises(r.body)
          THEN [console |-> head.console \o <<"error_detail_header">>,
                log |-> head.log, raised |-> TRUE,
                detail |-> [status |-> status, kind |-> "none", chars |-> 0]]
          ELSE [console |-> head.console \o <<"error_detail_header", "json">>,
                log |-> head.log, raised |-> FALSE,
                detail |-> [status |-> status, kind |-> "json", chars |-> 0]]
     ELSE IF TextLen(r.body) > 0
     THEN [console |-> head.console \o <<"server_response">>,
           log |-> head.log, raised |-> FALSE,
           detail |-> [status |-> status, kind |-> "text",
                       chars |-> Min(TextLen(r.body), 200)]]
     ELSE [console |-> head.console, log |-> head.log, raised |-> FALSE,
           detail |-> [status |-> status, kind |-> "none", chars |-> 0]]

\* the try block of query_whatsapp_number after requests.get has returned
\* or raised: raised is the exception that leaves the block, or "none"
TryBlock(r, save, w, number, ts, fs) ==
  LET quiet == [console |-> <<>>, log |-> <<>>, files |-> fs, data |-> "None",
                write |-> "none"]
      seen == <<Info("http_status")>>
  IN IF r.kind # "response"
     THEN [quiet EXCEPT !.log = <<>>] @@ [raised |-> r.kind]
     ELSE IF RaisesForStatus(r.status)
     THEN [quiet EXCEPT !.log = seen] @@ [raised |-> "HTTPError"]
     ELSE IF ~ParsesAsJson(r.body)
     THEN [quiet EXCEPT !.log = seen] @@ [raised |-> "JSONDecodeError"]
     ELSE IF PrintRaises(r.body)
     THEN [quiet EXCEPT !.log = seen, !.console = <<"success_banner">>]
          @@ [raised |-> "RecursionError"]
     ELSE LET sv == SaveStep(save, fs, number, ts, w)
          IN IF sv.raised
             THEN [console |-> <<"success_banner", "json">> \o sv.console,
                   log |-> seen \o sv.log, files |-> sv.files,
                   data |-> "None", write |-> sv.write, raised |-> "OSError"]
             ELSE [console |-> <<"success_banner", "json">> \o sv.console,
                   log |-> seen \o sv.log \o <<Info("query_ok")>>,
                   files |-> sv.files, data |-> r.body, write |-> sv.write,
                   raised |-> "none"]

\* the message each except clause other than the first prints and logs
ErrorMessage(h) ==
  CASE h = "Timeout" -> "timeout"
    [] h = "ConnectionError" -> "connection_error"
    [] h = "JSONDecodeError" -> "invalid_json"
    [] h = "Exception" -> "unexpected_error"

\* the clauses with "except Timeout: pass"
except_clause_silent_timeout(h) ==
  IF h = "Timeout" THEN [console |-> <<>>, log |-> <<>>]
  ELSE [console |-> <<ErrorMessage(h)>>, log |-> <<Error(ErrorMessage(h))>>]

\* an except clause other than the first: the message is printed and logged
except_clause(h) ==
  [console |-> <<ErrorMessage(h)>>, log |-> <<Error(ErrorMessage(h))>>]

\* query_whatsapp_number from the return of requests.get to its own return:
\* escaped says that an exception left the function
query_result(r, save, w, number, ts, fs) ==
  LET t == TryBlock(r, save, w, number, ts, fs)
  IN IF t.raised = "none"
     THEN [outcome |-> "Success", returned |-> t.data, console |-> t.console,
           log |-> t.log, files |-> t.files, detail |-> NoDetail,
           write |-> t.write, escaped |-> FALSE]
     ELSE LET h == Catch(t.raised)
          IN IF h = "HTTPError"
             THEN LET e == handle_http_error(r.status, r)
                  IN [outcome |-> OutcomeOf(h), returned |-> "None",
                      console |-> t.console \o e.console,
                      log |-> t.log \o e.log, files |-> t.files,
                      detail |-> e.detail, write |-> t.write,
                      escaped |-> e.raised]
             ELSE [outcome |-> OutcomeOf(h), returned |-> "None",
                   console |-> t.console \o except_clause(h).console,
                   log |-> t.log \o except_clause(h).log,
                   files |-> t.files, detail |-> NoDetail,
                   write |-> t.write, escaped |-> FALSE]

(***************************************************************************)
(* The phone functions on their own: an input is drawn, then validated,    *)
(* normalised, and normalised again.                                       *)
(***************************************************************************)
Idle ==
  /\ api_key = "" /\ api_host = "" /\ iter = 0 /\ entry = <<>> /\ choice = -2
  /\ save_to_file = FALSE /\ net = [kind |-> "none", status |-> 0, body |-> "none"]
  /\ gets = 0 /\ outcomes = 0 /\ outcome = "none" /\ returned = "none"
  /\ files = {} /\ log = <<>> /\ console = <<>> /\ exitKind = "none"
  /\ url = <<>> /\ detail = NoDetail /\ write = "none"

InitPhone ==
  /\ pc = "fn_input"
  /\ phone \in PhoneInputs
  /\ valid = FALSE /\ formatted = <<>> /\ twice = <<>>
  /\ Idle

program == <<api_key, api_host, iter, entry, choice, save_to_file, net, gets,
             outcomes, outcome, returned, files, log, console, exitKind, url,
             detail, write>>

ApplyValidate ==
  /\ pc = "fn_input"
  /\ valid' = validate_phone_number(phone)
  /\ pc' = "fn_validated"
  /\ UNCHANGED <<phone, formatted, twice, program>>

ApplyFormat ==
  /\ pc = "fn_validated"
  /\ formatted' = format_phone_number(phone)
  /\ pc' = "fn_formatted"
  /\ UNCHANGED <<phone, valid, twice, program>>

ApplyFormatAgain ==
  /\ pc = "fn_formatted"
  /\ twice' = format_phone_number(formatted)
  /\ pc' = "fn_done"
  /\ UNCHANGED <<phone, valid, formatted, program>>

NextPhone == ApplyValidate \/ ApplyFormat \/ ApplyFormatAgain

SpecPhone == InitPhone /\ [][NextPhone]_vars

(***************************************************************************)
(* The menu                                                                *)
(***************************************************************************)
DigitValue(c) ==
  CASE c = "0" -> 0 [] c = "1" -> 1 [] c = "2" -> 2 [] c = "3" -> 3
    [] c = "4" -> 4 [] c = "5" -> 5 [] c = "6" -> 6 [] c = "7" -> 7
    [] c = "8" -> 8 [] c = "9" -> 9 [] c = "ARABIC3" -> 3

RECURSIVE DigitsValue(_)
DigitsValue(s) ==
  IF Len(s) = 0 THEN 0
  ELSE 10 * DigitsValue(SubSeq(s, 1, Len(s) - 1)) + DigitValue(s[Len(s)])

RECURSIVE LStrip(_)
LStrip(s) ==
  IF Len(s) > 0 /\ IsWhitespace(s[1]) THEN LStrip(Tail(s)) ELSE s

RECURSIVE RStrip(_)
RStrip(s) ==
  IF Len(s) > 0 /\ IsWhitespace(s[Len(s)])
  THEN RStrip(SubSeq(s, 1, Len(s) - 1)) ELSE s

\* int(text): surrounding whitespace is ignored, one sign is allowed, the
\* rest must be digits; ok = FALSE stands for ValueError
ParseInt(text) ==
  LET body == RStrip(LStrip(text))
      signed == Len(body) > 0 /\ body[1] \in {"+", "-"}
      digits == IF signed THEN Tail(body) ELSE body
  IN IF IsDigit(digits)
     THEN [ok |-> TRUE,
           value |-> IF signed /\ body[1] = "-" THEN 0 - DigitsValue(digits)
                     ELSE DigitsValue(digits)]
     ELSE [ok |-> FALSE, value |-> 0]

\* the lines typed at the menu prompt
MenuEntries ==
  { <<"0">>, <<"1">>, <<"2">>, <<"3">>, <<"4">>, <<"5">>, <<"7">>,
    <<"-", "1">>, <<"-", "2">>, <<" ", "3">>, <<"a">>, <<"2", "a">>, <<>> }

\* show_menu: the choice returned for the line typed, -1 on ValueError
show_menu(text) ==
  LET n == ParseInt(text)
  IN [choice |-> IF n.ok THEN n.value ELSE -1,
      console |-> IF n.ok THEN <<"menu">> ELSE <<"menu", "invalid_number">>]

\* what reading the log file can do
LogReads == {"ok", "not_found", "error"}

LineColour(e) ==
  CASE e.level \in {"ERROR", "CRITICAL"} -> "log_line_red"
    [] e.level = "WARNING" -> "log_line_yellow"
    [] e.level = "INFO" -> "log_line_green"
    [] OTHER -> "log_line_white"

\* show_logs: every failure to read is caught and reported
show_logs(lg, rd) ==
  CASE rd = "ok" ->
         <<"log_header">> \o [i \in 1..Len(lg) |-> LineColour(lg[i])]
    [] rd = "not_found" -> <<"log_not_found">>
    [] rd = "error" -> <<"log_read_error">>

(***************************************************************************)
(* The program: main, WhatSPY.__init__, run                                *)
(***************************************************************************)
Init ==
  /\ pc = "start"
  /\ api_key = "" /\ api_host = ""
  /\ iter = 0 /\ entry = <<>> /\ choice = -2 /\ phone = <<>>
  /\ save_to_file = FALSE
  /\ net = NoResponse /\ gets = 0 /\ outcomes = 0
  /\ outcome = "none" /\ returned = "none"
  /\ files = {} /\ log = <<>> /\ console = <<>>
  /\ exitKind = "none" /\ url = <<>> /\ detail = NoDetail /\ write = "none"
  /\ valid = FALSE /\ formatted = <<>> /\ twice = <<>>

fn == <<valid, formatted, twice>>

call == <<phone, save_to_file, net, gets, outcomes, outcome, returned, url,
          detail, write>>

\* the values the environment can give RAPIDAPI_KEY and RAPIDAPI_HOST
EnvValues == {"", "set"}

\* load_environment with a missing value: report and sys.exit(1)
LoadEnvironmentMissing ==
  /\ pc = "start"
  /\ \E k \in EnvValues, h \in EnvValues :
       /\ k = "" \/ h = ""
       /\ api_key' = k /\ api_host' = h
  /\ console' = console \o <<"env_error">>
  /\ pc' = "terminated"
  /\ exitKind' = "ConfigMissing"
  /\ UNCHANGED <<iter, entry, choice, call, files, log, fn>>

\* load_environment with both values, then the head of run
LoadEnvironment ==
  /\ pc = "start"
  /\ \E k \in EnvValues, h \in EnvValues :
       /\ k # "" /\ h # ""
       /\ api_key' = k /\ api_host' = h
  /\ log' = log \o <<Info("env_loaded")>>
  /\ console' = <<"banner">>
  /\ pc' = "menu"
  /\ UNCHANGED <<iter, entry, choice, call, files, exitKind, fn>>

\* the menu is shown and a line is read; the branches of run follow
AtMenu(text) ==
  /\ pc = "menu"
  /\ iter < MaxIter
  /\ text \in MenuEntries
  /\ iter' = iter + 1
  /\ entry' = text
  /\ choice' = show_menu(text).choice

\* choices 1 and 2: the phone number is asked for
MenuQuery ==
  \E text \in MenuEntries :
    /\ AtMenu(text)
    /\ show_menu(text).choice \in {1, 2}
    /\ save_to_file' = (show_menu(text).choice = 2)
    /\ console' = console \o show_menu(text).console
    /\ pc' = "phone_prompt"
    /\ UNCHANGED <<api_key, api_host, phone, net, gets, outcomes, outcome,
                   returned, url, detail, write, files, log, exitKind, fn>>

\* choice 3: show_logs
MenuLogs ==
  \E text \in MenuEntries, rd \in LogReads :
    /\ AtMenu(text)
    /\ show_menu(text).choice = 3
    /\ console' = console \o show_menu(text).console \o show_logs(log, rd)
    /\ pc' = "pause"
    /\ UNCHANGED <<api_key, api_host, call, files, log, exitKind, fn>>

\* choice 4: clear_screen and show_banner, no pause
MenuClear ==
  \E text \in MenuEntries :
    /\ AtMenu(text)
    /\ show_menu(text).choice = 4
    /\ console' = <<"banner">>
    /\ pc' = "menu"
    /\ UNCHANGED <<api_key, api_host, call, files, log, exitKind, fn>>

\* choice 5: show_help
MenuHelp ==
  \E text \in MenuEntries :
    /\ AtMenu(text)
    /\ show_menu(text).choice = 5
    /\ console' = console \o show_menu(text).console \o <<"help">>
    /\ pc' = "pause"
    /\ UNCHANGED <<api_key, api_host, call, files, log, exitKind, fn>>

\* choice 0: farewell, and the loop is left
MenuExit ==
  \E text \in MenuEntries :
    /\ AtMenu(text)
    /\ show_menu(text).choice = 0
    /\ console' = console \o show_menu(text).console \o <<"goodbye">>
    /\ log' = log \o <<Info("user_exit")>>
    /\ pc' = "terminated"
    /\ exitKind' = "UserExit"
    /\ UNCHANGED <<api_key, api_host, call, files, fn>>

\* the final else branch of run: "invalid option" unless the choice is -1
invalid_choice(c) == IF c # -1 THEN <<"invalid_option">> ELSE <<>>

MenuInvalid ==
  \E text \in MenuEntries :
    /\ AtMenu(text)
    /\ show_menu(text).choice \notin 0..5
    /\ console' = console \o show_menu(text).console
                    \o invalid_choice(show_menu(text).choice)
    /\ pc' = "pause"
    /\ UNCHANGED <<api_key, api_host, call, files, log, exitKind, fn>>

\* the phone number is read and fails validate_phone_number
PhoneRejected ==
  /\ pc = "phone_prompt"
  /\ \E p \in MenuPhones :
       /\ ~validate_phone_number(p)
       /\ phone' = p
  /\ console' = console \o <<"invalid_phone">>
  /\ pc' = "pause"
  /\ UNCHANGED <<api_key, api_host, iter, entry, choice, save_to_file, net, gets,
                 outcomes, outcome, returned, url, detail, write, files, log,
                 exitKind, fn>>

\* the phone number is read and passes: query_whatsapp_number is called
PhoneAccepted ==
  /\ pc = "phone_prompt"
  /\ \E p \in MenuPhones :
       /\ validate_phone_number(p)
       /\ phone' = p
  /\ pc' = "query"
  /\ UNCHANGED <<api_key, api_host, iter, entry, choice, save_to_file, net, gets,
                 outcomes, outcome, returned, url, detail, write, files, log,
                 console, exitKind, fn>>

\* query_whatsapp_number up to requests.get: the number is normalised, the
\* URL built and announced
QueryBegin ==
  /\ pc = "query"
  /\ url' = <<api_host, format_phone_number(phone)>>
  /\ console' = console \o <<"query_header", "requesting">>
  /\ pc' = "request"
  /\ UNCHANGED <<api_key, api_host, iter, entry, choice, phone, save_to_file, net,
                 gets, outcomes, outcome, returned, detail, write, files, log,
                 exitKind, fn>>

\* requests.get: one GET is sent, and it raises or returns a response
Request ==
  /\ pc = "request"
  /\ gets' = gets + 1
  /\ net' \in NetOutcomes
  /\ pc' = "respond"
  /\ UNCHANGED <<api_key, api_host, iter, entry, choice, phone, save_to_file,
                 outcomes, outcome, returned, url, detail, write, files, log,
                 console, exitKind, fn>>

\* a loop that sends the request again after a timeout
RespondPcRetry(q) ==
  IF q.escaped THEN "terminated"
  ELSE IF q.outcome = "Timeout" THEN "request" ELSE "pause"

\* where control goes when query_whatsapp_number is over: back to run, or,
\* when an exception left it, through run to the handler of main
RespondPc(q) == IF q.escaped THEN "terminated" ELSE "pause"

\* the rest of query_whatsapp_number; an exception that leaves it is
\* reported by main as a critical error and the process ends
Respond ==
  /\ pc = "respond"
  /\ \E w \in SaveOutcomes :
       LET q == query_result(net, save_to_file, w, url[2], iter, files)
       IN /\ outcome' = q.outcome
          /\ outcomes' = outcomes + 1
          /\ returned' = q.returned
          /\ detail' = q.detail
          /\ write' = q.write
          /\ files' = q.files
          /\ pc' = RespondPc(q)
          /\ IF q.escaped
             THEN /\ console' = console \o q.console \o <<"critical_error">>
                  /\ log' = log \o q.log \o <<Critical("critical_error")>>
                  /\ exitKind' = "CriticalError"
             ELSE /\ console' = console \o q.console
                  /\ log' = log \o q.log
                  /\ exitKind' = exitKind
  /\ UNCHANGED <<api_key, api_host, iter, entry, choice, phone, save_to_file, net,
                 gets, url, fn>>

\* "Presiona Enter para continuar...": Enter is read and the loop goes round;
\* the locals of the finished branch are gone
Pause ==
  /\ pc = "pause"
  /\ console' = console \o <<"press_enter">>
  /\ pc' = "menu"
  /\ phone' = <<>> /\ save_to_file' = FALSE /\ net' = NoResponse
  /\ gets' = 0 /\ outcomes' = 0 /\ outcome' = "none" /\ returned' = "none"
  /\ url' = <<>> /\ detail' = NoDetail /\ write' = "none"
  /\ UNCHANGED <<api_key, api_host, iter, entry, choice, files, log, exitKind, fn>>

Next ==
  \/ LoadEnvironmentMissing
  \/ LoadEnvironment
  \/ MenuQuery
  \/ MenuLogs
  \/ MenuClear
  \/ MenuHelp
  \/ MenuExit
  \/ MenuInvalid
  \/ PhoneRejected
  \/ PhoneAccepted
  \/ QueryBegin
  \/ Request
  \/ Respond
  \/ Pause

Spec == Init /\ [][Next]_vars

(***************************************************************************)
(* Claims about the phone functions (checked under SpecPhone)              *)
(***************************************************************************)
\* the validation rule as the specification words it: only the five
\* characters space - ( ) + are removed, and only ASCII digits may remain
ValidatePerSpec(s) ==
  /\ Len(s) > 0
  /\ LET r == SelectSeq(s, LAMBDA c : c \notin {" ", "-", "(", ")", "+"})
     IN /\ \A i \in 1..Len(r) : r[i] \in AsciiDigits
        /\ Len(r) >= MIN_PHONE_LENGTH
        /\ Len(r) <= MAX_PHONE_LENGTH

\* C1: validate_phone_number(s) is true exactly when s is non-empty and,
\* with only space - ( ) + removed, what remains is 10 to 15 ASCII digits.
C1_ValidateExactlyPerSpec ==
  pc \in {"fn_validated", "fn_formatted", "fn_done"}
    => (valid = ValidatePerSpec(phone))

\* C9: whenever validate_phone_number(s) is true, format_phone_number(s) is
\* all digits (str.isdigit) and its length is between 10 and 15.
C9_ValidateImpliesNormalized ==
  (pc \in {"fn_formatted", "fn_done"} /\ valid)
    => /\ IsDigit(formatted)
       /\ Len(formatted) >= MIN_PHONE_LENGTH
       /\ Len(formatted) <= MAX_PHONE_LENGTH

\* a valid input from which characters were stripped has been normalised
C9_Witness ==
  /\ pc = "fn_formatted" /\ valid
  /\ Len(formatted) < Len(phone)
  /\ \E i \in 1..Len(phone) : phone[i] = "+"

\* C10: normalising twice gives the same string as normalising once.
C10_FormatIdempotent ==
  pc = "fn_done" => twice = formatted

\* an input with several stripped characters has been normalised twice
C10_Witness ==
  /\ pc = "fn_done"
  /\ Len(phone) >= Len(formatted) + 2
  /\ Len(formatted) > 0
  /\ twice = formatted

(***************************************************************************)
(* Claims about the query and the menu (checked under Spec)                *)
(***************************************************************************)
\* a query has run to its end: it returned to run, or the process ended in it
QueryOver == pc \in {"pause", "terminated"} /\ outcome # "none"

Is2xx(status) == status >= 200 /\ status < 300

\* the outcome the stated priority order gives a request
ClaimedOutcome(r) ==
  CASE r.kind \in {"ReadTimeout", "ConnectTimeout"} -> "Timeout"
    [] r.kind = "ConnectionError" -> "ConnectionError"
    [] r.kind = "response" /\ ~Is2xx(r.status) -> "HttpError"
    [] r.kind = "response" /\ Is2xx(r.status) /\ ~ParsesAsJson(r.body) ->
         "InvalidResponseBody"
    [] r.kind = "response" /\ Is2xx(r.status) /\ ParsesAsJson(r.body)
         /\ ~PrintRaises(r.body) -> "Success"
    [] OTHER -> "UnknownError"

\* C2: the outcome of a query is the one the priority order gives: timeout,
\* connection failure, HttpError for every status outside 2xx,
\* InvalidResponseBody, Success with the parsed value, else UnknownError.
C2_ClassificationByPriority ==
  QueryOver =>
    /\ outcome = ClaimedOutcome(net)
    /\ outcome = "Success" => returned = net.body

\* C3: an HttpError carries the status and, when the body is JSON, the
\* parsed body; when it is not, the first 200 characters of the text.
C3_HttpErrorCarriesBody ==
  (QueryOver /\ outcome = "HttpError") =>
    /\ detail.status = net.status
    /\ ParsesAsJson(net.body) => detail.kind = "json"
    /\ (~ParsesAsJson(net.body) /\ TextLen(net.body) > 0) =>
         (detail.kind = "text" /\ detail.chars = Min(TextLen(net.body), 200))

\* C4: the set of result files changes only in a query that ends in Success
\* and was asked to save.
C4_FileOnlyOnSuccessAndSave ==
  [][files' # files =>
       (pc = "respond" /\ outcome' = "Success" /\ save_to_file)]_vars

\* a query asked to save has timed out and there is no file
C4_Witness ==
  /\ pc = "pause" /\ outcome = "Timeout" /\ save_to_file /\ files = {}

\* C5: a call of query_whatsapp_number sends one GET and produces one
\* outcome, whatever the outcome is.
C5_OneGetOneOutcome ==
  /\ gets <= 1 /\ outcomes <= 1
  /\ pc = "respond" => (gets = 1 /\ outcomes = 0)
  /\ QueryOver => (gets = 1 /\ outcomes = 1)

\* a query that timed out has returned
C5_Witness ==
  /\ pc = "pause" /\ outcome = "Timeout" /\ gets = 1 /\ outcomes = 1

\* C6 as stated: while a query executes, the result files, the log and the
\* console stay as they are.
C6_QueryLeavesFilesLogConsole ==
  [][(pc \in {"query", "request", "respond"})
       => (files' = files /\ log' = log /\ console' = console)]_vars

\* C6 as amended: the query itself writes to the console when it starts and
\* to console and log when it ends, and itself calls save_result_to_file
\* when it succeeds and was asked to save; what run does after the query
\* has returned changes neither files nor log and prints only the Enter
\* prompt.
C6_QueryPresentsAndLogs ==
  [][/\ pc = "query" => console' # console
     /\ pc = "respond" => (console' # console /\ log' # log)
     /\ (pc = "respond" /\ outcome' = "Success" /\ save_to_file) =>
          \E i \in (Len(log) + 1)..Len(log') :
             log'[i].msg \in {"saved", "save_error"}
     /\ pc = "pause" => /\ files' = files
                        /\ log' = log
                        /\ console' = Append(console, "press_enter")]_vars

\* a successful query has printed, logged and saved before returning
C6_Witness ==
  /\ pc = "pause" /\ outcome = "Success" /\ save_to_file
  /\ files # {}
  /\ \E i \in 1..Len(console) : console[i] = "json"
  /\ \E i \in 1..Len(log) : log[i].msg = "query_ok"

InvalidEntry == ~ParseInt(entry).ok \/ ParseInt(entry).value \notin 0..5

\* C8: an entry that is not a number 0..5 is reported and the loop goes on;
\* the loop ends only on choice 0.
C8_InvalidEntryReported ==
  /\ (pc = "pause" /\ InvalidEntry) =>
       console[Len(console)] \in {"invalid_number", "invalid_option"}
  /\ (pc = "terminated" /\ iter > 0) => (choice = 0 /\ exitKind = "UserExit")

\* C11: when writing the result file fails, the failure is reported on the
\* console and in the log inside save_result_to_file, nothing leaves it, and
\* the query ends in Success and returns the decoded body.
C11_SaveFailureStaysInside ==
  (pc \in {"pause", "terminated"} /\ write \in {"open_fails", "dump_fails"}) =>
    /\ pc = "pause" /\ exitKind = "none"
    /\ outcome = "Success" /\ returned = net.body
    /\ console[Len(console)] = "save_error"
    /\ Len(log) >= 2
    /\ log[Len(log) - 1] = Error("save_error")
    /\ log[Len(log)] = Info("query_ok")

\* a query whose file could not be opened has returned its data
C11_Witness ==
  /\ pc = "pause" /\ write = "open_fails"
  /\ outcome = "Success" /\ returned = "json"
  /\ files = {}

\* C12: a GET is sent only for a phone string that passed validation; a
\* rejected string causes no request and no file; the number in the URL is
\* the normalised input, all digits (str.isdigit) and 10 to 15 long.
C12_RequestOnlyForValidatedInput ==
  /\ (pc \in {"query", "request", "respond"} \/ gets > 0)
       => validate_phone_number(phone)
  /\ url # <<>> =>
       /\ url[2] = format_phone_number(phone)
       /\ IsDigit(url[2])
       /\ Len(url[2]) >= MIN_PHONE_LENGTH
       /\ Len(url[2]) <= MAX_PHONE_LENGTH
  /\ (pc = "pause" /\ choice \in {1, 2} /\ ~validate_phone_number(phone)) =>
       /\ gets = 0 /\ url = <<>> /\ outcome = "none"
       /\ \A f \in files : f.name[2] # iter

\* the request for "+52 55 1234 5678" has been sent to .../number/525512345678
C12_Witness ==
  /\ pc = "respond" /\ gets = 1
  /\ Len(phone) > Len(url[2])
  /\ url[2] = <<"5","2","5","5","1","2","3","4","5","6","7","8">>

====
